---------------------------- MODULE Spec2Model ----------------------------
(***************************************************************************)
(* EV vs ICE lifecycle carbon breakeven: the Streamlit script src/app.py   *)
(* (build_simulation, the breakeven calculation, the headline metric, the  *)
(* distance inspector and the chart's breakeven marker) and                *)
(* src/etl_ice.py (get_ice_emissions).                                     *)
(*                                                                         *)
(* Numbers.  The program computes in binary floating point; the model      *)
(* computes in decimal fixed point over the integers, every quantity at a  *)
(* fixed resolution named where it is defined, every division rounding     *)
(* down.  The resolutions are chosen so that the percentage adjustments    *)
(* are exact and no intermediate product leaves 32 bits:                   *)
(*    percentages              whole percent                               *)
(*    ice_mpg_adj              1/100 mpg                                   *)
(*    ev_eff_adj               1/100 kWh per 100 km                        *)
(*    ev_kwh_per_km            1/10000 kWh per km                          *)
(*    grid intensities         1/100 g per kWh                             *)
(*    slopes                   1/1000 g per km                             *)
(*    masses (kg columns)      1/1000 kg                                   *)
(*    annual_decarbonization_rate, decay factors   1/10000                 *)
(*    years                    1/1000 year                                 *)
(* Line 67 of src/app.py carries one closing parenthesis too many; the     *)
(* model takes the expression without it.                                  *)
(***************************************************************************)
EXTENDS Integers, Sequences, FiniteSets, TLC

(***************************************************************************)
(* Program constants.                                                      *)
(***************************************************************************)
KM_STEP == 1000
MAX_KM == 250000
\* etl_ice.py: 1.60934, here in 1/100000
MILES_TO_KM == 160934
CO2_TAILPIPE_G_PER_GAL == 8887
\* etl_ice.py: 1.266, here in 1/1000
WTP_OVERHEAD_FACTOR == 1266

(***************************************************************************)
(* Resolutions of the fixed-point quantities.                              *)
(***************************************************************************)
\* app.py: the 100 of the percentages (x / 100)
Pct == 100
\* app.py: the 1000.0 of g -> kg
Milli == 1000
Unit4 == Pct * Pct
Unit5 == 10 * Unit4

(***************************************************************************)
(* Python values.                                                          *)
(***************************************************************************)
\* None and a present value, for breakeven_km / breakeven_years
None == << >>
Some(x) == << x >>
IsNone(o) == o = << >>
Val(o) == o[1]

\* Python truthiness of an optional int: None and 0 are both falsy
Truthy(o) == IF IsNone(o) THEN FALSE ELSE Val(o) # 0

\* max(a, b)
Max(a, b) == IF a >= b THEN a ELSE b

\* floor(a * b / c) for a, b >= 0 and 0 < c, without leaving 32 bits:
\* a = q*c + r, b = bh*Milli + bl.
MulDiv(a, b, c) ==
    LET q  == a \div c
        r  == a % c
        bh == b \div Milli
        bl == b % Milli
        t  == r * bh
        q2 == t \div c
        r2 == t % c
    IN  q * b + q2 * Milli + ((r2 * Milli + r * bl) \div c)

(***************************************************************************)
(* etl_ice.py                                                              *)
(***************************************************************************)
\* get_ice_emissions(fuel_efficiency_mpg): g CO2 per km, in 1/1000 g per km,
\* from a positive fuel economy in 1/100 mpg.  (On 0.0 Python's float division
\* raises ZeroDivisionError: build_simulation models that outcome.)
get_ice_emissions(fuel_efficiency_mpg) ==
    LET total_co2_per_gal == CO2_TAILPIPE_G_PER_GAL * WTP_OVERHEAD_FACTOR
        grams_per_mile == (total_co2_per_gal * Pct) \div fuel_efficiency_mpg
    IN  MulDiv(grams_per_mile, Unit5, MILES_TO_KM)

(***************************************************************************)
(* numpy                                                                   *)
(***************************************************************************)
\* an array held by value: every element computed once, when it is built
Array(f) == SubSeq(f, 1, Len(f))

\* Mutant of Arange: the stop itself left out of the caller's range
\* (np.arange(0, MAX_KM, KM_STEP))
Arange_StopLeftOut(start, stop, step) ==
    Array([i \in 1..((stop - step - start + step - 1) \div step) |->
              start + (i - 1) * step])

\* np.arange(start, stop, step) for step > 0
Arange(start, stop, step) ==
    Array([i \in 1..((stop - start + step - 1) \div step) |->
              start + (i - 1) * step])

\* the running sums of s[lo..hi], continuing from the sum before s[lo]
RECURSIVE RunningSum(_, _, _, _)
RunningSum(s, lo, hi, before) ==
    IF lo = hi THEN << before + s[lo] >>
    ELSE LET mid == (lo + hi) \div 2
             left == RunningSum(s, lo, mid, before)
         IN  left \o RunningSum(s, mid + 1, hi, left[Len(left)])

\* np.cumsum(s): element i is element i - 1 plus s[i]
Cumsum(s) == IF Len(s) = 0 THEN << >> ELSE RunningSum(s, 1, Len(s), 0)

\* acc * x ** n for a natural n: n multiplications by x in a row, each
\* rounded down, acc, x and the result in 1/10000 (nothing changes once the
\* product has reached 0, or when x is 1)
RECURSIVE PowIter(_, _, _)
PowIter(acc, x, n) ==
    IF n = 0 \/ acc = 0 \/ x = Unit4 THEN acc
    ELSE IF n = 1 THEN (acc * x) \div Unit4
    ELSE PowIter(PowIter(acc, x, n \div 2), x, n - (n \div 2))

\* math.gcd(a, b) for a, b >= 0
RECURSIVE Gcd(_, _)
Gcd(a, b) == IF b = 0 THEN a ELSE Gcd(b, a % b)

\* the k-th root of x, in 1/10000: the largest y in lo..hi with y ** k <= x
RECURSIVE RootSearch(_, _, _, _)
RootSearch(x, k, lo, hi) ==
    IF lo >= hi THEN lo
    ELSE LET mid == (lo + hi + 1) \div 2
         IN  IF PowIter(Unit4, mid, k) <= x THEN RootSearch(x, k, mid, hi)
             ELSE RootSearch(x, k, lo, mid - 1)

\* before * y ** (m * j) for j = 1 .. hi - lo + 1, each from the one before
RECURSIVE PowRun(_, _, _, _, _)
PowRun(y, m, lo, hi, before) ==
    IF lo = hi THEN << PowIter(before, y, m) >>
    ELSE LET mid == (lo + hi) \div 2
             left == PowRun(y, m, lo, mid, before)
         IN  left \o PowRun(y, m, mid + 1, hi, left[Len(left)])

\* x ** (km_points / divisor) for 0 <= x <= 1, x and the results in 1/10000,
\* km_points = 0, KM_STEP, 2 * KM_STEP, ... and divisor >= 1.  With
\* g = gcd(KM_STEP, divisor), k = divisor / g and m = KM_STEP / g,
\*     x ** (i * KM_STEP / divisor) = (x ** (1 / k)) ** (i * m),
\* a whole power of the k-th root of x (k = 1 when divisor divides KM_STEP);
\* x ** 0 = 1.
PowYears(x, n, divisor) ==
    LET g == Gcd(KM_STEP, divisor)
        k == divisor \div g
        m == KM_STEP \div g
        y == RootSearch(x, k, 0, Unit4)
    IN  IF n <= 1 THEN SubSeq(<< Unit4 >>, 1, n)
        ELSE << Unit4 >> \o PowRun(y, m, 2, n, Unit4)

(***************************************************************************)
(* app.py: build_simulation                                                *)
(***************************************************************************)
\* max(annual_km, 1.0), the divisor of line 62
SimYearsDivisor(annual_km) == Max(annual_km, 1)

\* ev_slope_kg_km_points * KM_STEP and ice_slope_kg_km * KM_STEP, with the
\* slope / 1000.0 before it: a slope in 1/1000 g per km to the emissions
\* of one step in 1/1000 kg
StepKg(slope_g_km) == (slope_g_km * KM_STEP) \div Milli

\* ev_kwh_per_km * grid: 1/10000 kWh per km times 1/100 g per kWh, to
\* 1/1000 g per km
EvSlope(ev_kwh_per_km, grid_g_per_kwh) ==
    (ev_kwh_per_km * grid_g_per_kwh) \div Milli

\* grid_adj * (1 - annual_decarbonization_rate) ** years, years the
\* n samples' km_points / divisor
DynamicGrid(grid_adj, annual_decarbonization_rate, n, divisor) ==
    LET factor == PowYears(Unit4 - annual_decarbonization_rate, n, divisor)
    IN  Array([i \in 1..n |-> (grid_adj * factor[i]) \div Unit4])

\* Mutant of EvSteps: each step takes the slope of the sample before it
\* (np.concatenate([[0.0], ev_step_kg_points[:-1]]))
EvSteps_LeftEndpoint(ev_step_kg_points) ==
    Array([i \in 1..Len(ev_step_kg_points) |->
              IF i = 1 THEN 0 ELSE ev_step_kg_points[i - 1]])

\* np.concatenate([[0.0], ev_step_kg_points[1:]])
EvSteps(ev_step_kg_points) ==
    Array([i \in 1..Len(ev_step_kg_points) |->
              IF i = 1 THEN 0 ELSE ev_step_kg_points[i]])

\* np.concatenate([[0.0], np.repeat(ice_step_kg, len(km_points) - 1)])
IceSteps(ice_step_kg, n) ==
    Array([i \in 1..n |-> IF i = 1 THEN 0 ELSE ice_step_kg])

\* The arguments of build_simulation are a record p (grid_mode is not read
\* by the function).  The percentages are whole percent,
\* annual_decarbonization_rate is in 1/10000, ice_mfg and ev_mfg whole kg.

\* line 51: grid_base_g_per_kwh * (1 + grid_uncertainty_pct / 100)
grid_adj(p) == p.grid_base_g_per_kwh * (Pct + p.grid_uncertainty_pct)

\* line 52: ev_kwh_per_100km * (1 + ev_deg_pct / 100)
ev_eff_adj(p) == p.ev_kwh_per_100km * (Pct + p.ev_deg_pct)

\* line 53: ice_mpg * (1 - ice_real_world_penalty_pct / 100)
ice_mpg_adj(p) == p.ice_mpg * (Pct - p.ice_real_world_penalty_pct)

\* line 61: ev_eff_adj / 100.0; 1/100 kWh per 100 km is 1/10000 kWh per km
ev_kwh_per_km(p) == ev_eff_adj(p)

\* Mutant of EvSlopePoints: the decaying grid whatever the flag
EvSlopePoints_AlwaysDynamic(decarbonize, kwh_per_km, grid, dynamic, n) ==
    Array([i \in 1..n |-> EvSlope(kwh_per_km, dynamic[i])])

\* lines 63-67: the EV slope at the n samples
EvSlopePoints(decarbonize, kwh_per_km, grid, dynamic_grid_gpkwh, n) ==
    IF decarbonize
    THEN Array([i \in 1..n |-> EvSlope(kwh_per_km, dynamic_grid_gpkwh[i])])
    ELSE Array([i \in 1..n |-> EvSlope(kwh_per_km, grid)])

\* Mutant of GridUsed: the condition the wrong way round
GridUsed_Swapped(decarbonize, grid, dynamic_grid_gpkwh, n) ==
    IF decarbonize THEN Array([i \in 1..n |-> grid])
    ELSE dynamic_grid_gpkwh

\* line 82: the grid_used_g_per_kwh column
GridUsed(decarbonize, grid, dynamic_grid_gpkwh, n) ==
    IF ~decarbonize THEN Array([i \in 1..n |-> grid])
    ELSE dynamic_grid_gpkwh

\* Mutant of Delta: the operands exchanged
Delta_Swapped(ice_total_kg, ev_total_kg) == ev_total_kg - ice_total_kg

\* line 90: delta_kg
Delta(ice_total_kg, ev_total_kg) == ice_total_kg - ev_total_kg

\* build_simulation(...): [raised, years, df]
build_simulation(p) ==
    LET km_points == Arange(0, MAX_KM + KM_STEP, KM_STEP)
        n == Len(km_points)
        ice_slope_g_km == get_ice_emissions(ice_mpg_adj(p))
        ice_step_kg == StepKg(ice_slope_g_km)
        divisor == SimYearsDivisor(p.annual_km)
        years == Array([i \in 1..n |-> (km_points[i] * Milli) \div divisor])
        dynamic_grid_gpkwh ==
            DynamicGrid(grid_adj(p), p.annual_decarbonization_rate, n, divisor)
        ev_slope_g_km_points ==
            EvSlopePoints(p.decarbonize, ev_kwh_per_km(p), grid_adj(p),
                          dynamic_grid_gpkwh, n)
        ev_step_kg_points ==
            Array([i \in 1..n |-> StepKg(ev_slope_g_km_points[i])])
        ice_cum == Cumsum(IceSteps(ice_step_kg, n))
        ev_cum == Cumsum(EvSteps(ev_step_kg_points))
        grid_used ==
            GridUsed(p.decarbonize, grid_adj(p), dynamic_grid_gpkwh, n)
        df == Array([i \in 1..n |->
                [km |-> km_points[i],
                 ice_operational_kg |-> ice_cum[i],
                 ev_operational_kg |-> ev_cum[i],
                 ev_slope_g_per_km |-> ev_slope_g_km_points[i],
                 grid_used_g_per_kwh |-> grid_used[i],
                 ice_mfg_kg |-> p.ice_mfg * Milli,
                 ev_mfg_kg |-> p.ev_mfg * Milli,
                 ice_total_kg |-> ice_cum[i] + p.ice_mfg * Milli,
                 ev_total_kg |-> ev_cum[i] + p.ev_mfg * Milli,
                 delta_kg |-> Delta(ice_cum[i] + p.ice_mfg * Milli,
                                    ev_cum[i] + p.ev_mfg * Milli)]])
    IN  IF ice_mpg_adj(p) = 0
        THEN [raised |-> "ZeroDivisionError", years |-> << >>, df |-> << >>]
        ELSE [raised |-> "", years |-> years, df |-> df]

(***************************************************************************)
(* app.py: the script, top to bottom.  Streamlit runs it once per          *)
(* interaction; the arguments of build_simulation come from the sidebar    *)
(* widgets and from the two processed CSV files.                           *)
(***************************************************************************)
VARIABLES
    pc,               \* the statement the script is at
    args,             \* the arguments of build_simulation
    years,            \* build_simulation's local years (line 62)
    sim_df,           \* the trajectory build_simulation returned
    raised,           \* the exception that ended the run, "" when none
    breakeven_km,     \* None or an int
    breakeven_years,  \* None or a number
    col3_metric,      \* the "Breakeven" headline metric
    inspect_km,       \* the distance inspector's slider
    row,              \* the row the inspector shows
    breakeven_marker  \* the x of the chart's vline and annotation, or None

vars == << pc, args, years, sim_df, raised, breakeven_km, breakeven_years,
           col3_metric, inspect_km, row, breakeven_marker >>

\* The values the model draws the arguments from.  Sliders: ice_mpg 10..80,
\* ev_eff 8..30, annual_km 1000..100000, the percentages -50..50 / 0..50,
\* the rate 0..10 %; build_simulation itself takes any number, and the
\* documented domain of the percentages is -100..100.
IceMpgChoices == {30}
EvKwhChoices == {18}
AnnualKmChoices == {0, 1000, 15000}
GridBaseChoices == {0, 400, 1000}
GridUncertaintyChoices == {0, 50}
EvDegChoices == {0 - 100, 0, 50}
IcePenaltyChoices == {0, 100}
RateChoices == {0, 300, 1000}
\* <<ice_mfg, ev_mfg>>: manufacturing_baselines.csv as etl_mfg.py writes it
\* (6079, 10471), and other contents of that file
MfgChoices == { <<6079, 10471>>, <<10471, 6079>>, <<6079, 6079>>,
                <<6079, 0 - 1>> }
\* the distance inspector's slider, 0..MAX_KM
InspectChoices == {0, KM_STEP - 1, KM_STEP, 5000, MAX_KM - 1, MAX_KM}

ArgChoices ==
    { [ice_mpg |-> m, ev_kwh_per_100km |-> e, annual_km |-> a,
       grid_base_g_per_kwh |-> g, grid_uncertainty_pct |-> u,
       ev_deg_pct |-> d, ice_real_world_penalty_pct |-> pen,
       decarbonize |-> dec, annual_decarbonization_rate |-> r,
       ice_mfg |-> mfg[1], ev_mfg |-> mfg[2]] :
        m \in IceMpgChoices, e \in EvKwhChoices, a \in AnnualKmChoices,
        g \in GridBaseChoices, u \in GridUncertaintyChoices,
        d \in EvDegChoices, pen \in IcePenaltyChoices, dec \in BOOLEAN,
        r \in RateChoices, mfg \in MfgChoices }

\* the widgets' defaults
DefaultArgs ==
    [ice_mpg |-> 30, ev_kwh_per_100km |-> 18, annual_km |-> 15000,
     grid_base_g_per_kwh |-> 400, grid_uncertainty_pct |-> 0,
     ev_deg_pct |-> 0, ice_real_world_penalty_pct |-> 0,
     decarbonize |-> FALSE, annual_decarbonization_rate |-> 0,
     ice_mfg |-> 6079, ev_mfg |-> 10471]

Init ==
    /\ pc = "sidebar"
    /\ args = DefaultArgs
    /\ years = << >>
    /\ sim_df = << >>
    /\ raised = ""
    /\ breakeven_km = None
    /\ breakeven_years = None
    /\ col3_metric = None
    /\ inspect_km = None
    /\ row = None
    /\ breakeven_marker = None

\* lines 104-145: the sidebar and the manufacturing baselines
Sidebar ==
    /\ pc = "sidebar"
    /\ args' \in ArgChoices
    /\ pc' = "build_simulation"
    /\ UNCHANGED << years, sim_df, raised, breakeven_km, breakeven_years,
                    col3_metric, inspect_km, row, breakeven_marker >>

\* lines 149-162: sim_df = build_simulation(...)
BuildSimulation ==
    /\ pc = "build_simulation"
    /\ LET r == build_simulation(args)
       IN  /\ raised' = r.raised
           /\ years' = r.years
           /\ sim_df' = r.df
           /\ pc' = IF r.raised = "" THEN "breakeven" ELSE "stopped"
    /\ UNCHANGED << args, breakeven_km, breakeven_years, col3_metric,
                    inspect_km, row, breakeven_marker >>

\* Mutant of PositiveRows: delta_kg >= 0
PositiveRows_NonNegative(df) == {i \in 1..Len(df) : df[i].delta_kg >= 0}

\* sim_df[sim_df["delta_kg"] > 0]: the indices of the rows the mask keeps
PositiveRows(df) == {i \in 1..Len(df) : df[i].delta_kg > 0}

\* Mutant of FirstRow: .iat[-1]
FirstRow_Last(rows) == CHOOSE i \in rows : \A j \in rows : i >= j

\* .iat[0]: the first row kept (the rows keep their order)
FirstRow(rows) == CHOOSE i \in rows : \A j \in rows : i <= j

\* Mutant of BreakevenYearsDivisor: the divisor not floored
BreakevenYearsDivisor_NotFloored(annual_km) == annual_km

\* max(annual_km,1), the divisor of line 168
BreakevenYearsDivisor(annual_km) == Max(annual_km, 1)

\* lines 165-171: the breakeven calculation
BreakevenCalculation ==
    /\ pc = "breakeven"
    /\ LET breakeven_row == PositiveRows(sim_df)
           first == FirstRow(breakeven_row)
           divisor == BreakevenYearsDivisor(args.annual_km)
       IN  IF breakeven_row # {}
           THEN IF divisor = 0
                THEN /\ breakeven_km' = Some(sim_df[first].km)
                     /\ breakeven_years' = None
                     /\ raised' = "ZeroDivisionError"
                     /\ pc' = "stopped"
                ELSE /\ breakeven_km' = Some(sim_df[first].km)
                     /\ breakeven_years' =
                            Some((sim_df[first].km * Milli) \div divisor)
                     /\ raised' = raised
                     /\ pc' = "metric"
           ELSE /\ breakeven_km' = None
                /\ breakeven_years' = None
                /\ raised' = raised
                /\ pc' = "metric"
    /\ UNCHANGED << args, years, sim_df, col3_metric, inspect_km, row,
                    breakeven_marker >>

\* lines 179-182: the headline metric
HeadlineMetric ==
    /\ pc = "metric"
    /\ col3_metric' =
          IF ~IsNone(breakeven_km)
          THEN Some([value |-> "{breakeven_km:,} km", km |-> breakeven_km,
                     years |-> breakeven_years])
          ELSE Some([value |-> "NEVER within range", km |-> None,
                     years |-> None])
    /\ pc' = "inspector"
    /\ UNCHANGED << args, years, sim_df, raised, breakeven_km,
                    breakeven_years, inspect_km, row, breakeven_marker >>

\* lines 187-189: the distance inspector
DistanceInspector ==
    /\ pc = "inspector"
    /\ \E x \in InspectChoices :
          /\ inspect_km' = Some(x)
          /\ IF x \div KM_STEP < Len(sim_df)
             THEN /\ row' = Some(sim_df[(x \div KM_STEP) + 1])
                  /\ raised' = raised
                  /\ pc' = "chart"
             ELSE /\ row' = None
                  /\ raised' = "IndexError"
                  /\ pc' = "stopped"
    /\ UNCHANGED << args, years, sim_df, breakeven_km, breakeven_years,
                    col3_metric, breakeven_marker >>

\* lines 229-231: the chart's breakeven marker
BreakevenChartMarker ==
    /\ pc = "chart"
    /\ breakeven_marker' = IF Truthy(breakeven_km) THEN breakeven_km ELSE None
    /\ pc' = "done"
    /\ UNCHANGED << args, years, sim_df, raised, breakeven_km,
                    breakeven_years, col3_metric, inspect_km, row >>

\* Streamlit runs the script again, from the top, with fresh variables
Rerun ==
    /\ pc \in {"done", "stopped"}
    /\ pc' = "sidebar"
    /\ years' = << >>
    /\ sim_df' = << >>
    /\ raised' = ""
    /\ breakeven_km' = None
    /\ breakeven_years' = None
    /\ col3_metric' = None
    /\ inspect_km' = None
    /\ row' = None
    /\ breakeven_marker' = None
    /\ args' = DefaultArgs

Next ==
    \/ Sidebar
    \/ BuildSimulation
    \/ BreakevenCalculation
    \/ HeadlineMetric
    \/ DistanceInspector
    \/ BreakevenChartMarker
    \/ Rerun

Spec == Init /\ [][Next]_vars

(***************************************************************************)
(* The properties.                                                         *)
(***************************************************************************)
\* build_simulation has returned a trajectory
Simulated == Len(sim_df) > 0

\* the breakeven calculation has run
AfterBreakeven == pc \in {"metric", "inspector", "chart", "done"}

Rows == 1..Len(sim_df)

Found == ~IsNone(breakeven_km)

\* C1: the breakeven calculation returns the sample with the smallest km
\* among the samples with delta_kg > 0 (a sample with delta_kg = 0 is not a
\* breakeven), and None for both the distance and the years exactly when no
\* sample has delta_kg > 0.
C1_BreakevenIsFirstPositiveSample ==
    AfterBreakeven =>
        /\ IsNone(breakeven_km) <=> (\A i \in Rows : sim_df[i].delta_kg <= 0)
        /\ IsNone(breakeven_years) <=> IsNone(breakeven_km)
        /\ Found =>
              \E i \in Rows :
                  /\ sim_df[i].km = Val(breakeven_km)
                  /\ sim_df[i].delta_kg > 0
                  /\ \A j \in 1..(i - 1) : sim_df[j].delta_kg <= 0

\* C1 witness: the first sample has delta_kg = 0 and is passed over, the
\* breakeven is the second sample
C1_Witness ==
    /\ AfterBreakeven
    /\ sim_df[1].delta_kg = 0
    /\ breakeven_km = Some(KM_STEP)

\* fuel economy, efficiency or a manufacturing value that is not valid
InvalidParameter(p) ==
    \/ ice_mpg_adj(p) <= 0
    \/ ev_eff_adj(p) <= 0
    \/ p.ice_mfg < 0
    \/ p.ev_mfg < 0

\* C2 (the claim as stated, on valid parameters): where the script consumes
\* the breakeven, a breakeven found (at 0 km too) is treated as found, and
\* only None as not found: the headline metric shows the distance, and the
\* chart carries the breakeven marker, exactly when breakeven_km is not
\* None.
C2_FoundAtZeroIsFound ==
    (pc = "done" /\ ~InvalidParameter(args)) =>
        /\ Found <=> (Val(col3_metric).value # "NEVER within range")
        /\ Found <=> ~IsNone(breakeven_marker)

\* C3: ev_operational_kg[0] = 0, ice_operational_kg[0] = 0, and each later
\* sample adds to the one before it the emissions of one step at its own
\* slope: ev_operational_kg[i] = ev_operational_kg[i-1]
\*                               + (ev_slope_g_per_km[i] / 1000) * KM_STEP.
C3_RightEndpointIntegration ==
    Simulated =>
        /\ sim_df[1].ev_operational_kg = 0
        /\ sim_df[1].ice_operational_kg = 0
        /\ \A i \in 2..Len(sim_df) :
              sim_df[i].ev_operational_kg =
                  sim_df[i - 1].ev_operational_kg
                  + (sim_df[i].ev_slope_g_per_km * KM_STEP) \div Milli

\* C3 witness: a decarbonizing trajectory whose slope differs from one
\* sample to the next, the slope of sample 0 positive
C3_Witness ==
    /\ Simulated
    /\ sim_df[1].ev_slope_g_per_km > sim_df[2].ev_slope_g_per_km
    /\ sim_df[2].ev_slope_g_per_km > sim_df[3].ev_slope_g_per_km
    /\ sim_df[3].ev_slope_g_per_km > 0

\* C4 (the claim as stated): with an invalid parameter build_simulation ends
\* in an error and returns no trajectory.
C4_InvalidParametersRejected ==
    (pc \notin {"sidebar", "build_simulation"} /\ InvalidParameter(args)) =>
        (raised # "" /\ ~Simulated)

\* C5: with decarbonize false, ev_slope_g_per_km is (ev_eff_adj / 100) *
\* grid_adj and grid_used_g_per_kwh is grid_adj at every sample, whatever
\* annual_decarbonization_rate and annual_km are.
C5_StaticGridConstantSlope ==
    (Simulated /\ ~args.decarbonize) =>
        \A i \in Rows :
            /\ sim_df[i].ev_slope_g_per_km =
                  (ev_eff_adj(args) * grid_adj(args)) \div Milli
            /\ sim_df[i].grid_used_g_per_kwh = grid_adj(args)

\* C5 witness: decarbonize false with a nonzero rate and a positive slope
C5_Witness ==
    /\ Simulated
    /\ ~args.decarbonize
    /\ args.annual_decarbonization_rate > 0
    /\ args.annual_km = 1000
    /\ sim_df[Len(sim_df)].ev_slope_g_per_km > 0

\* C6: with decarbonize true, a rate in (0, 1) and grid_adj >= 0,
\* grid_used_g_per_kwh starts at grid_adj and never increases from one
\* sample to the next, and ev_slope_g_per_km is (ev_eff_adj / 100) *
\* grid_used_g_per_kwh at every sample.
C6_DecarbonizingGridNonIncreasing ==
    (/\ Simulated
     /\ args.decarbonize
     /\ args.annual_decarbonization_rate > 0
     /\ args.annual_decarbonization_rate < Unit4
     /\ grid_adj(args) >= 0) =>
        /\ sim_df[1].grid_used_g_per_kwh = grid_adj(args)
        /\ \A i \in 1..(Len(sim_df) - 1) :
              sim_df[i + 1].grid_used_g_per_kwh
                  <= sim_df[i].grid_used_g_per_kwh
        /\ \A i \in Rows :
              sim_df[i].ev_slope_g_per_km =
                  (ev_eff_adj(args) * sim_df[i].grid_used_g_per_kwh)
                      \div Milli

\* C6 witness: a decarbonizing trajectory over fractional years whose grid
\* intensity has fallen, and is still positive at the last sample
C6_Witness ==
    /\ Simulated
    /\ args.decarbonize
    /\ args.annual_decarbonization_rate > 0
    /\ args.annual_km = 15000
    /\ sim_df[2].grid_used_g_per_kwh < sim_df[1].grid_used_g_per_kwh
    /\ sim_df[Len(sim_df)].grid_used_g_per_kwh > 0
    /\ sim_df[Len(sim_df)].ev_slope_g_per_km > 0

\* the ICE slope, in 1/1000 g per km, of a run that got past line 56
IceSlope == get_ice_emissions(ice_mpg_adj(args))

\* floor(D*) of C7: D* = (ev_mfg - ice_mfg) * 1000 / (ice slope - ev slope),
\* the slopes in 1/1000 g per km
AnalyticBreakevenFloor ==
    MulDiv((args.ev_mfg - args.ice_mfg) * Milli, Milli,
           IceSlope - sim_df[1].ev_slope_g_per_km)

C7_Applies ==
    /\ AfterBreakeven
    /\ ~args.decarbonize
    /\ IceSlope > sim_df[1].ev_slope_g_per_km
    /\ args.ev_mfg >= args.ice_mfg
    /\ AnalyticBreakevenFloor < MAX_KM

\* C7: without decarbonization, with ICE slope > EV slope, ev_mfg >= ice_mfg
\* and D* < MAX_KM, the breakeven is found and its distance d is the
\* smallest multiple of KM_STEP above D*: 0 < d - D* <= KM_STEP.  (d is a
\* whole number, so D* < d is floor(D*) < d, and d - KM_STEP <= D* is
\* d - KM_STEP <= floor(D*).)
C7_WithinOneStepOfAnalytic ==
    C7_Applies =>
        /\ Found
        /\ Val(breakeven_km) % KM_STEP = 0
        /\ AnalyticBreakevenFloor < Val(breakeven_km)
        /\ Val(breakeven_km) - KM_STEP <= AnalyticBreakevenFloor

\* C7 witness: ev_eff = 18, grid = 400, ice_mpg = 30, no adjustment, the
\* baselines of etl_mfg.py: D* is 27273.7 km and the breakeven 28000 km
C7_Witness ==
    /\ C7_Applies
    /\ args.grid_base_g_per_kwh = 400
    /\ args.grid_uncertainty_pct = 0
    /\ args.ev_deg_pct = 0
    /\ args.ice_real_world_penalty_pct = 0
    /\ AnalyticBreakevenFloor = 27273
    /\ breakeven_km = Some(28000)

\* C8: annual_km = 0 (any annual_km < 1) causes no division error; the
\* years of every sample and of the breakeven are km / max(annual_km, 1).
C8_YearsDivisorFloored ==
    /\ ice_mpg_adj(args) # 0 => raised # "ZeroDivisionError"
    /\ Simulated =>
          \A i \in Rows :
              years[i] = (sim_df[i].km * Milli) \div Max(args.annual_km, 1)
    /\ (AfterBreakeven /\ Found) =>
          breakeven_years =
              Some((Val(breakeven_km) * Milli) \div Max(args.annual_km, 1))

\* C8 witness: annual_km = 0 and a breakeven found beyond 0 km, its years
\* the distance itself
C8_Witness ==
    /\ AfterBreakeven
    /\ args.annual_km = 0
    /\ Found
    /\ Val(breakeven_km) > 0
    /\ Val(breakeven_years) = Val(breakeven_km) * Milli
    /\ years[Len(years)] = MAX_KM * Milli

\* C9: the trajectory has MAX_KM / KM_STEP + 1 rows, km = 0, KM_STEP, ...,
\* MAX_KM; inspect_km // KM_STEP is a row of it for every distance in
\* 0..MAX_KM (MAX_KM included), the row with row.km <= inspect_km <
\* row.km + KM_STEP.  Every distance lies in one of the ranges
\* k * KM_STEP .. k * KM_STEP + KM_STEP - 1, whose two ends are checked here
\* for every k; the distances the inspector draws are checked on the row it
\* took.
C9_InspectorRowInRange ==
    /\ raised # "IndexError"
    /\ Simulated =>
          /\ Len(sim_df) = MAX_KM \div KM_STEP + 1
          /\ \A i \in Rows : sim_df[i].km = (i - 1) * KM_STEP
          /\ \A k \in 0..(MAX_KM \div KM_STEP) :
                \A x \in {k * KM_STEP, k * KM_STEP + KM_STEP - 1} :
                    x <= MAX_KM =>
                        /\ (x \div KM_STEP) + 1 \in Rows
                        /\ sim_df[(x \div KM_STEP) + 1].km <= x
                        /\ x < sim_df[(x \div KM_STEP) + 1].km + KM_STEP
    /\ pc \in {"chart", "done"} =>
          /\ Val(row) = sim_df[(Val(inspect_km) \div KM_STEP) + 1]
          /\ Val(row).km <= Val(inspect_km)
          /\ Val(inspect_km) < Val(row).km + KM_STEP

\* C9 witness: the inspector at MAX_KM itself, on the last row
C9_Witness ==
    /\ pc = "chart"
    /\ inspect_km = Some(MAX_KM)
    /\ Val(row).km = MAX_KM
    /\ Val(row) = sim_df[Len(sim_df)]

C10_Applies ==
    /\ Simulated
    /\ args.ev_mfg >= args.ice_mfg
    /\ args.ice_mfg >= 0
    /\ ice_mpg_adj(args) > 0
    /\ ev_eff_adj(args) > 0
    /\ grid_adj(args) >= 0
    /\ args.annual_decarbonization_rate >= 0
    /\ args.annual_decarbonization_rate < Unit4

\* C10: with ev_mfg >= ice_mfg, a positive ICE slope, grid_adj >= 0 and a
\* rate in [0, 1), decarbonizing or not, a sample with delta_kg > 0 is
\* followed by a sample with delta_kg > 0, so that every later sample up to
\* MAX_KM has delta_kg > 0 and delta_kg crosses zero at most once.
C10_BreakevenPermanent ==
    C10_Applies =>
        \A i \in 1..(Len(sim_df) - 1) :
            sim_df[i].delta_kg > 0 => sim_df[i + 1].delta_kg > 0

\* C10 witness: a decarbonizing trajectory that starts in debt, crosses
\* zero inside the horizon and ends positive
C10_Witness ==
    /\ C10_Applies
    /\ args.decarbonize
    /\ args.annual_decarbonization_rate > 0
    /\ sim_df[1].delta_kg < 0
    /\ sim_df[2].delta_kg < 0
    /\ sim_df[Len(sim_df)].delta_kg > 0

=============================================================================
